---- MODULE Spec2Model ----
(***************************************************************************)
(* canvas_alerts.py: the deadline digest of a Canvas account.              *)
(*                                                                         *)
(* Time is counted in slots of six hours: slot t is hour 6 * (t % Day) of  *)
(* calendar day t \div Day, so midnight is every multiple of Day.  A dict  *)
(* is a function from its keys; a JSON null is an absent key.  None is     *)
(* <<>> and an optional datetime is None or <<t>>.  An ISO-8601 text       *)
(* written by datetime.isoformat() is <<"iso", t>>.                        *)
(***************************************************************************)
EXTENDS Integers, Sequences, FiniteSets, TLC

VARIABLES
    now,                     \* datetime.now(ET) of the current run
    file,                    \* state.json: None while the file does not exist
    pc,                      \* position of the run inside main()
    mode,                    \* determine_mode()
    state,                   \* the dict returned by load_state()
    courses,                 \* fetch_active_courses()
    ci,                      \* index of the course the loop of main() is at
    all_assignments,         \* the dict id -> assignment, in insertion order
    announcements_by_course, \* course label -> announcements kept
    failed_courses,          \* labels of the courses whose fetch raised
    buckets,                 \* categorize() of the morning run
    emails,                  \* the send_email() calls of the run, in order
    saves,                   \* the save_state() calls of the run
    calls,                   \* the Canvas requests of the run, in order
    resp,                    \* the listing fetch_assignments() returned last
    replaced,                \* ids whose record a later source has replaced
    chain,                   \* the pages the server holds for a fetch_paginated() call
    url,                     \* fetch_paginated: the page to request, None when none
    params,                  \* fetch_paginated: the query parameters of the next request
    attempt,                 \* fetch_paginated: the index of the for loop
    results,                 \* fetch_paginated: the records collected so far
    returned,                \* fetch_paginated: None, or <<value>> once it has returned
    mornings                 \* what each completed morning run loaded, merged and missed

vars == <<now, file, pc, mode, state, courses, ci, all_assignments,
          announcements_by_course, failed_courses, buckets, emails, saves,
          calls, resp, replaced, chain, url, params, attempt, results, returned,
          mornings>>

\* the locals of fetch_paginated() and the pages it is served
pvars == <<chain, url, params, attempt, results, returned>>

None == <<>>

Day == 4

Some(v) == <<v>>

\* ------------------------------------------------------------------ helpers

isoformat(t) == <<"iso", t>>

parse_dt(val) == IF val = None THEN None ELSE Some(val[2])

Min(a, b) == IF a <= b THEN a ELSE b

\* a.get(k) of a key whose values are ISO texts
Get(a, k) == IF k \in DOMAIN a THEN a[k] ELSE None

\* a[k] = v
SetField(a, k, v) == [f \in DOMAIN a \cup {k} |-> IF f = k THEN v ELSE a[f]]

effective_deadline(a) ==
    LET due == parse_dt(Get(a, "due_at"))
        lock == parse_dt(Get(a, "lock_at"))
    IN  IF due # None /\ lock # None THEN Some(Min(due[1], lock[1]))
        ELSE IF due # None THEN due ELSE lock

is_submitted(a) ==
    IF "submission" \notin DOMAIN a THEN FALSE
    ELSE a.submission.workflow_state \in {"submitted", "graded"}

str(id) == ToString(id)

today_start_of(t) == t - (t % Day)

\* ----------------------------------------------------------- categorization

BucketNames == {"missed", "today_past", "today", "tomorrow", "soon", "new"}

cat_last_run(st, t) ==
    IF parse_dt(st.last_morning_run) # None
    THEN parse_dt(st.last_morning_run)[1]
    ELSE t - Day

\* the missed window closed one slot early: a deadline equal to now is not missed
IsMissed_BeforeNow(a, d, last_run, t) == ~is_submitted(a) /\ last_run < d /\ d < t

\* the missed test without its submission test
IsMissed_IgnoresSubmission(a, d, last_run, t) == last_run < d /\ d <= t

IsMissed(a, d, last_run, t) == ~is_submitted(a) /\ last_run < d /\ d <= t

\* the seen ids are never consulted: every future item counts as new
IsNew_IgnoresSeen(a, seen_ids) == str(a.id) \notin {}

IsNew(a, seen_ids) == str(a.id) \notin seen_ids

\* the windows counted from now instead of from midnight
TimeBucket_Rolling(d, t) ==
    IF t <= d /\ d < t + Day THEN {"today"}
    ELSE IF t + Day <= d /\ d < t + 2 * Day THEN {"tomorrow"}
    ELSE IF t + 2 * Day <= d /\ d < t + 4 * Day THEN {"soon"}
    ELSE {}

TimeBucket(d, t) ==
    LET today_start == today_start_of(t)
        today_end == today_start + Day
        tomorrow_end == today_start + 2 * Day
        soon_end == today_start + 4 * Day
    IN  IF today_start <= d /\ d < today_end
        THEN (IF d < t THEN {"today_past"} ELSE {"today"})
        ELSE IF today_end <= d /\ d < tomorrow_end THEN {"tomorrow"}
        ELSE IF tomorrow_end <= d /\ d < soon_end THEN {"soon"}
        ELSE {}

SortKey(a, t) == IF effective_deadline(a) # None THEN effective_deadline(a)[1] ELSE t

\* the loop without its first guard: a missing deadline counts as now
Classify_DeadlineOrNow(a, st, t) ==
    LET d == SortKey(a, t)
        seen_ids == DOMAIN st.seen_assignments
    IN  IF IsMissed(a, d, cat_last_run(st, t), t) THEN {"missed"}
        ELSE IF d <= t THEN {}
        ELSE (IF IsNew(a, seen_ids) THEN {"new"} ELSE {}) \cup TimeBucket(d, t)

\* the loop without the two continue statements
Classify_FallsThrough(a, st, t) ==
    LET dl == effective_deadline(a)
        seen_ids == DOMAIN st.seen_assignments
    IN  IF dl = None THEN {}
        ELSE (IF IsMissed(a, dl[1], cat_last_run(st, t), t) THEN {"missed"} ELSE {})
                \cup (IF IsNew(a, seen_ids) THEN {"new"} ELSE {})
                \cup TimeBucket(dl[1], t)

\* the loop with "new" taking the place of the time bucket
Classify_NewInsteadOfTimeBucket(a, st, t) ==
    LET dl == effective_deadline(a)
        seen_ids == DOMAIN st.seen_assignments
    IN  IF dl = None THEN {}
        ELSE IF IsMissed(a, dl[1], cat_last_run(st, t), t) THEN {"missed"}
        ELSE IF dl[1] <= t THEN {}
        ELSE IF IsNew(a, seen_ids) THEN {"new"} ELSE TimeBucket(dl[1], t)

\* The buckets one assignment is appended to by one pass of the loop.
Classify(a, st, t) ==
    LET dl == effective_deadline(a)
        seen_ids == DOMAIN st.seen_assignments
    IN  IF dl = None THEN {}
        ELSE IF IsMissed(a, dl[1], cat_last_run(st, t), t) THEN {"missed"}
        ELSE IF dl[1] <= t THEN {}
        ELSE (IF IsNew(a, seen_ids) THEN {"new"} ELSE {}) \cup TimeBucket(dl[1], t)

RECURSIVE InsertSorted(_, _, _)
InsertSorted(s, a, t) ==
    IF s = <<>> THEN <<a>>
    ELSE IF SortKey(a, t) < SortKey(s[Len(s)], t)
         THEN Append(InsertSorted(SubSeq(s, 1, Len(s) - 1), a, t), s[Len(s)])
         ELSE Append(s, a)

RECURSIVE SortByDeadline(_, _)
SortByDeadline(s, t) ==
    IF s = <<>> THEN <<>>
    ELSE InsertSorted(SortByDeadline(SubSeq(s, 1, Len(s) - 1), t), s[Len(s)], t)

BucketOf(assignments, st, t, key) ==
    LET RECURSIVE Fill(_)
        Fill(i) ==
            IF i = 0 THEN <<>>
            ELSE IF key \in Classify(assignments[i], st, t)
                 THEN Append(Fill(i - 1), assignments[i])
                 ELSE Fill(i - 1)
    IN  SortByDeadline(Fill(Len(assignments)), t)

categorize(assignments, st, t) ==
    [key \in BucketNames |-> BucketOf(assignments, st, t, key)]

EmptyBuckets == [key \in BucketNames |-> <<>>]

\* ------------------------------------------------------------ input universe

MaxTime == 7

Ids == {1, 2}

\* GET /courses: one course that has started, one whose window ends at slot 6
Roster ==
    << [id |-> 101, course_code |-> "CS101", name |-> "Intro", start_at |-> isoformat(0)],
       [id |-> 202, name |-> "Math 220", end_at |-> isoformat(6)] >>

CourseResponses == {Roster}

\* assignment records as the API returns them
RunRecords ==
    { [id |-> 1, name |-> "Essay", due_at |-> isoformat(6)],
      [id |-> 1, name |-> "Essay", due_at |-> isoformat(9),
       submission |-> [workflow_state |-> "unsubmitted"], peer_reviews |-> TRUE],
      [id |-> 1, name |-> "Essay v2", due_at |-> isoformat(22), lock_at |-> isoformat(9),
       submission |-> [workflow_state |-> "graded"]],
      [id |-> 2] }

Listings == {<<>>} \cup {<<r>> : r \in RunRecords}

TodoResponses ==
    {<<>>, <<[course_id |-> 202]>>}
        \cup {<<[course_id |-> 202, assignment |-> r]>> : r \in RunRecords}

CalendarResponses ==
    {<<>>, <<[title |-> "Office hours"]>>}
        \cup {<<[assignment |-> SetField(r, "course_id", 101)]>> : r \in RunRecords}

AnnouncementResponses(t) ==
    {<<>>} \cup {<<[posted_at |-> isoformat(p)]>> : p \in {t - Day, t - 1}}

DigestModes == {"", "morning", "evening"}

\* ------------------------------------------------------------- main: helpers

DefaultState ==
    [last_morning_run |-> None, last_evening_run |-> None, seen_assignments |-> <<>>]

load_state(f) == IF f # None THEN f[1] ELSE DefaultState

\* json.dumps(state) written to state.json
save_state(st) == Some(st)

hour(t) == 6 * (t % Day)

determine_mode(DIGEST_MODE, t) ==
    IF DIGEST_MODE \in {"morning", "evening"} THEN DIGEST_MODE
    ELSE IF 6 <= hour(t) /\ hour(t) < 12 THEN "morning"
    ELSE IF 18 <= hour(t) /\ hour(t) < 23 THEN "evening"
    ELSE "exit"

course_name(c) ==
    IF "course_code" \in DOMAIN c THEN c.course_code
    ELSE IF "name" \in DOMAIN c THEN c.name
    ELSE "Unknown Course"

InSession(c, t) ==
    LET start == parse_dt(Get(c, "start_at"))
        end == parse_dt(Get(c, "end_at"))
    IN  /\ ~(start # None /\ start[1] > t)
        /\ ~(end # None /\ end[1] < t)

fetch_active_courses(response, t) == SelectSeq(response, LAMBDA c : InSession(c, t))

\* course_map.get(cid, "Unknown"); cid is None or <<id>>
course_map_get(cs, cid) ==
    IF cid # None /\ \E i \in 1..Len(cs) : cs[i].id = cid[1]
    THEN course_name(cs[CHOOSE i \in 1..Len(cs) : cs[i].id = cid[1]])
    ELSE "Unknown"

DictKeys(d) == {d[i].id : i \in 1..Len(d)}

DictIndex(d, id) == CHOOSE i \in 1..Len(d) : d[i].id = id

DictGet(d, id) == d[DictIndex(d, id)]

\* d[a["id"]] = a: a key already present keeps its place in the dict
DictSet(d, a) ==
    IF a.id \in DictKeys(d) THEN [d EXCEPT ![DictIndex(d, a.id)] = a]
    ELSE Append(d, a)

\* for a in fetch_assignments(cid, bucket): a["_course_name"] = cname; all_assignments[a["id"]] = a
RECURSIVE MergeListing(_, _, _)
MergeListing(d, listing, cname) ==
    IF listing = <<>> THEN d
    ELSE MergeListing(DictSet(d, SetField(Head(listing), "_course_name", cname)),
                      Tail(listing), cname)

\* the to-do loop without its "not in all_assignments" test
RECURSIVE MergeTodo_Overwrites(_, _, _)
MergeTodo_Overwrites(d, items, cs) ==
    IF items = <<>> THEN d
    ELSE LET item == Head(items)
             cid == IF "course_id" \in DOMAIN item THEN Some(item.course_id) ELSE None
         IN  IF "assignment" \in DOMAIN item
             THEN MergeTodo_Overwrites(
                    DictSet(d, SetField(item.assignment, "_course_name",
                                        course_map_get(cs, cid))),
                    Tail(items), cs)
             ELSE MergeTodo_Overwrites(d, Tail(items), cs)

\* the to-do loop of main()
RECURSIVE MergeTodo(_, _, _)
MergeTodo(d, items, cs) ==
    IF items = <<>> THEN d
    ELSE LET item == Head(items)
             cid == IF "course_id" \in DOMAIN item THEN Some(item.course_id) ELSE None
         IN  IF "assignment" \in DOMAIN item /\ item.assignment.id \notin DictKeys(d)
             THEN MergeTodo(Append(d, SetField(item.assignment, "_course_name",
                                               course_map_get(cs, cid))),
                            Tail(items), cs)
             ELSE MergeTodo(d, Tail(items), cs)

\* the calendar loop of main()
RECURSIVE MergeCalendar(_, _, _)
MergeCalendar(d, events, cs) ==
    IF events = <<>> THEN d
    ELSE LET ev == Head(events)
         IN  IF "assignment" \in DOMAIN ev /\ ev.assignment.id \notin DictKeys(d)
             THEN LET a == ev.assignment
                      cid == IF "course_id" \in DOMAIN a THEN Some(a.course_id) ELSE None
                  IN  MergeCalendar(Append(d, SetField(a, "_course_name",
                                                       course_map_get(cs, cid))),
                                    Tail(events), cs)
             ELSE MergeCalendar(d, Tail(events), cs)

\* the assignments of the peer-review loop that get a fetch_peer_reviews() call
PeerReviewed(d, cname) ==
    {d[i].id : i \in {j \in 1..Len(d) :
                        /\ "peer_reviews" \in DOMAIN d[j] /\ d[j].peer_reviews
                        /\ "_course_name" \in DOMAIN d[j] /\ d[j]._course_name = cname}}

\* outcome[id] is "raise", "empty" or "reviews" for each call made
AttachPeerReviews(d, outcome) ==
    [i \in 1..Len(d) |->
        IF d[i].id \in DOMAIN outcome /\ outcome[d[i].id] = "reviews"
        THEN SetField(d[i], "_peer_reviews", <<"review">>)
        ELSE d[i]]

\* state.get(f"last_{mode}_run") or (now - timedelta(days=1)).isoformat()
announcement_since(st, m, t) ==
    LET last == IF m = "morning" THEN st.last_morning_run ELSE st.last_evening_run
    IN  IF last # None THEN last ELSE isoformat(t - Day)

\* the filter keeping an announcement posted exactly at the cutoff
fetch_announcements_AtOrAfter(items, since_ts) ==
    SelectSeq(items, LAMBDA a : parse_dt(a.posted_at)[1] >= parse_dt(since_ts)[1])

fetch_announcements(items, since_ts) ==
    SelectSeq(items, LAMBDA a : parse_dt(a.posted_at)[1] > parse_dt(since_ts)[1])

Ids_of(s) == [i \in 1..Len(s) |-> s[i].id]

\* ----------------------------------------------------------- email builders

SectionOrder == <<"missed", "today_past", "today", "tomorrow", "soon", "new">>

all_empty(b, anns) == (\A key \in BucketNames : Len(b[key]) = 0) /\ DOMAIN anns = {}

\* the all-clear test without the failed courses
IsAllClear_IgnoresFailures(b, anns, failed) == all_empty(b, anns)

IsAllClear(b, anns, failed) == all_empty(b, anns) /\ failed = <<>>

\* the blocks of the body, in order: section_html() hides an empty bucket,
\* warning_banner() an empty list, announcement_section() an empty dict
build_morning_html(b, anns, failed, total_courses, total_assignments) ==
    IF IsAllClear(b, anns, failed)
    THEN [template |-> "morning", all_clear |-> TRUE, warning |-> <<>>,
          sections |-> <<>>, announcements |-> {},
          total_courses |-> total_courses, total_assignments |-> total_assignments]
    ELSE [template |-> "morning", all_clear |-> FALSE, warning |-> failed,
          sections |-> SelectSeq([i \in 1..6 |-> <<SectionOrder[i], Ids_of(b[SectionOrder[i]])>>],
                                 LAMBDA sec : sec[2] # <<>>),
          announcements |-> DOMAIN anns,
          total_courses |-> total_courses, total_assignments |-> total_assignments]

IsDueTomorrowUnsubmitted(a, t) ==
    /\ ~is_submitted(a)
    /\ effective_deadline(a) # None
    /\ today_start_of(t) + Day <= effective_deadline(a)[1]
    /\ effective_deadline(a)[1] < today_start_of(t) + 2 * Day

tomorrow_unsubmitted(assignments, t) ==
    SortByDeadline(SelectSeq(assignments, LAMBDA a : IsDueTomorrowUnsubmitted(a, t)), t)

\* None is the signal not to send
build_evening_html(tomorrow_items) ==
    IF tomorrow_items = <<>> THEN None
    ELSE Some([template |-> "evening", cards |-> Ids_of(tomorrow_items)])

build_error_html == [template |-> "error"]

\* the entry of state["seen_assignments"] written for a new identifier
Snapshot(a, t) ==
    [name |-> IF "name" \in DOMAIN a THEN a.name ELSE "",
     course |-> IF "_course_name" \in DOMAIN a THEN a._course_name ELSE "",
     due_at |-> IF effective_deadline(a) # None
                THEN isoformat(effective_deadline(a)[1]) ELSE None,
     first_seen |-> isoformat(t)]

\* the loop recording only the assignments that have a deadline
RecordSeen_SkipsNoDeadline(seen, assignments, t) ==
    LET dated == SelectSeq(assignments, LAMBDA a : effective_deadline(a) # None)
        ids == {str(dated[i].id) : i \in 1..Len(dated)}
    IN  [k \in DOMAIN seen \cup ids |->
            IF k \in DOMAIN seen THEN seen[k]
            ELSE Snapshot(dated[CHOOSE i \in 1..Len(dated) : str(dated[i].id) = k], t)]

\* the loop without its "not in" test: every merged assignment is written again
RecordSeen_Refreshes(seen, assignments, t) ==
    LET ids == {str(assignments[i].id) : i \in 1..Len(assignments)}
    IN  [k \in DOMAIN seen \cup ids |->
            IF k \in ids
            THEN Snapshot(assignments[CHOOSE i \in 1..Len(assignments) :
                                        str(assignments[i].id) = k], t)
            ELSE seen[k]]

\* the loop over assignments that fills state["seen_assignments"]
RECURSIVE RecordSeen(_, _, _)
RecordSeen(seen, assignments, t) ==
    IF assignments = <<>> THEN seen
    ELSE LET a == Head(assignments)
             aid == str(a.id)
         IN  IF aid \notin DOMAIN seen
             THEN RecordSeen([k \in DOMAIN seen \cup {aid} |->
                                 IF k = aid THEN Snapshot(a, t) ELSE seen[k]],
                             Tail(assignments), t)
             ELSE RecordSeen(seen, Tail(assignments), t)

morning_update(st, assignments, t) ==
    [st EXCEPT !.last_morning_run = isoformat(t),
               !.seen_assignments = RecordSeen(st.seen_assignments, assignments, t)]

\* the evening branch writing a fresh record of its run over the state
evening_update_FreshState(st, t) ==
    [last_morning_run |-> None, last_evening_run |-> isoformat(t), seen_assignments |-> <<>>]

\* the evening branch recording the run under both keys
evening_update_MovesBothRuns(st, t) ==
    [st EXCEPT !.last_evening_run = isoformat(t), !.last_morning_run = isoformat(t)]

evening_update(st, t) == [st EXCEPT !.last_evening_run = isoformat(t)]

\* -------------------------------------------------------------- main: steps

Terminal == {"returned", "raised", "exited"}

CurCourse == courses[ci]

\* the Canvas requests of the run; ok: fetch_active_courses() returned
CoursesRequest(ok) == [api |-> "courses", ok |-> ok]

Request(api) == [api |-> api]

CourseRequest(api, c, arg) == [api |-> api, course |-> c.id, arg |-> arg]

Email(subject, html) == [subject |-> subject, html |-> html]

FreshRun ==
    /\ courses' = <<>>
    /\ ci' = 0
    /\ all_assignments' = <<>>
    /\ announcements_by_course' = <<>>
    /\ failed_courses' = <<>>
    /\ buckets' = EmptyBuckets
    /\ emails' = <<>>
    /\ saves' = 0
    /\ calls' = <<>>
    /\ resp' = <<>>
    /\ replaced' = {}

Init ==
    /\ now = Day
    /\ file = None
    /\ pc = "exited"
    /\ mode = "exit"
    /\ state = DefaultState
    /\ courses = <<>>
    /\ ci = 0
    /\ all_assignments = <<>>
    /\ announcements_by_course = <<>>
    /\ failed_courses = <<>>
    /\ buckets = EmptyBuckets
    /\ emails = <<>>
    /\ saves = 0
    /\ calls = <<>>
    /\ resp = <<>>
    /\ replaced = {}
    /\ chain = <<>>
    /\ url = None
    /\ params = <<>>
    /\ attempt = 0
    /\ results = <<>>
    /\ returned = None
    /\ mornings = <<>>

\* a new process: now, determine_mode(), load_state()
StartRun ==
    /\ pc \in Terminal
    /\ \E t \in (now + 1)..MaxTime, DIGEST_MODE \in DigestModes :
        /\ determine_mode(DIGEST_MODE, t) # "exit"
        /\ now' = t
        /\ mode' = determine_mode(DIGEST_MODE, t)
    /\ state' = load_state(file)
    /\ pc' = "courses"
    /\ FreshRun
    /\ UNCHANGED file
    /\ UNCHANGED <<pvars, mornings>>

\* a new process outside both digest windows: sys.exit(0) in determine_mode()
OutsideWindows ==
    /\ pc \in Terminal
    /\ \E t \in (now + 1)..MaxTime :
        /\ determine_mode("", t) = "exit"
        /\ now' = t
    /\ mode' = "exit"
    /\ state' = DefaultState
    /\ pc' = "exited"
    /\ FreshRun
    /\ UNCHANGED file
    /\ UNCHANGED <<pvars, mornings>>

FetchCoursesOk ==
    /\ pc = "courses"
    /\ \E response \in CourseResponses :
        /\ courses' = fetch_active_courses(response, now)
        /\ ci' = 1
        /\ pc' = IF fetch_active_courses(response, now) = <<>> THEN "todo" ELSE "upcoming"
    /\ calls' = Append(calls, CoursesRequest(TRUE))
    /\ UNCHANGED <<now, file, mode, state, all_assignments, announcements_by_course,
                   failed_courses, buckets, emails, saves, resp, replaced>>
    /\ UNCHANGED <<pvars, mornings>>

\* the fatal branch recording the run in state.json before it returns
FetchCoursesFail_RecordsRun ==
    /\ pc = "courses"
    /\ calls' = Append(calls, CoursesRequest(FALSE))
    /\ emails' = Append(emails, Email("Canvas Alerts Error", build_error_html))
    /\ state' = IF mode = "morning" THEN [state EXCEPT !.last_morning_run = isoformat(now)]
                 ELSE evening_update(state, now)
    /\ file' = save_state(state')
    /\ saves' = saves + 1
    /\ \E delivered \in BOOLEAN : pc' = IF delivered THEN "returned" ELSE "raised"
    /\ UNCHANGED <<now, mode, courses, ci, all_assignments,
                   announcements_by_course, failed_courses, buckets, resp, replaced>>
    /\ UNCHANGED <<pvars, mornings>>

\* fetch_active_courses() raises: the error mail, then return
FetchCoursesFail ==
    /\ pc = "courses"
    /\ calls' = Append(calls, CoursesRequest(FALSE))
    /\ emails' = Append(emails, Email("Canvas Alerts Error", build_error_html))
    /\ \E delivered \in BOOLEAN : pc' = IF delivered THEN "returned" ELSE "raised"
    /\ UNCHANGED <<now, file, mode, state, courses, ci, all_assignments,
                   announcements_by_course, failed_courses, buckets, saves, resp, replaced>>
    /\ UNCHANGED <<pvars, mornings>>

\* the except branch of the course loop, then the next iteration
CourseFailed(api, arg) ==
    /\ calls' = Append(calls, CourseRequest(api, CurCourse, arg))
    /\ failed_courses' = Append(failed_courses, course_name(CurCourse))
    /\ ci' = ci + 1
    /\ pc' = IF ci + 1 > Len(courses) THEN "todo" ELSE "upcoming"

FetchAssignmentsOk ==
    /\ pc \in {"upcoming", "past"}
    /\ \E listing \in Listings :
        /\ all_assignments' = MergeListing(all_assignments, listing, course_name(CurCourse))
        /\ resp' = listing
        /\ replaced' = replaced \cup
                (DictKeys(all_assignments) \cap {listing[i].id : i \in 1..Len(listing)})
    /\ calls' = Append(calls, CourseRequest("assignments", CurCourse, pc))
    /\ pc' = IF pc = "upcoming" THEN "past" ELSE "peer_reviews"
    /\ UNCHANGED <<now, file, mode, state, courses, ci, announcements_by_course,
                   failed_courses, buckets, emails, saves>>
    /\ UNCHANGED <<pvars, mornings>>

FetchAssignmentsFail ==
    /\ pc \in {"upcoming", "past"}
    /\ CourseFailed("assignments", pc)
    /\ resp' = <<>>
    /\ UNCHANGED <<now, file, mode, state, courses, all_assignments,
                   announcements_by_course, buckets, emails, saves, replaced>>
    /\ UNCHANGED <<pvars, mornings>>

\* the peer-review loop: each call returns reviews, returns none, or raises
FetchPeerReviews ==
    /\ pc = "peer_reviews"
    /\ LET cname == course_name(CurCourse)
           asked == SelectSeq(all_assignments,
                              LAMBDA a : a.id \in PeerReviewed(all_assignments, cname))
       IN  \E outcome \in [PeerReviewed(all_assignments, cname)
                            -> {"reviews", "empty", "raise"}] :
            /\ all_assignments' = AttachPeerReviews(all_assignments, outcome)
            /\ calls' = calls \o
                    [i \in 1..Len(asked) |->
                        CourseRequest("peer_reviews", CurCourse, str(asked[i].id))]
    /\ pc' = "announcements"
    /\ resp' = <<>>
    /\ UNCHANGED <<now, file, mode, state, courses, ci, announcements_by_course,
                   failed_courses, buckets, emails, saves, replaced>>
    /\ UNCHANGED <<pvars, mornings>>

FetchAnnouncementsOk ==
    /\ pc = "announcements"
    /\ \E items \in AnnouncementResponses(now) :
        LET anns == fetch_announcements(items, announcement_since(state, mode, now))
            cname == course_name(CurCourse)
        IN  announcements_by_course' =
                IF anns # <<>>
                THEN [c \in DOMAIN announcements_by_course \cup {cname} |->
                        IF c = cname THEN anns ELSE announcements_by_course[c]]
                ELSE announcements_by_course
    /\ calls' = Append(calls, CourseRequest("announcements", CurCourse, ""))
    /\ ci' = ci + 1
    /\ pc' = IF ci + 1 > Len(courses) THEN "todo" ELSE "upcoming"
    /\ UNCHANGED <<now, file, mode, state, courses, all_assignments, failed_courses,
                   buckets, emails, saves, resp, replaced>>
    /\ UNCHANGED <<pvars, mornings>>

FetchAnnouncementsFail ==
    /\ pc = "announcements"
    /\ CourseFailed("announcements", "")
    /\ UNCHANGED <<now, file, mode, state, courses, all_assignments,
                   announcements_by_course, buckets, emails, saves, resp, replaced>>
    /\ UNCHANGED <<pvars, mornings>>

FetchTodoOk ==
    /\ pc = "todo"
    /\ \E items \in TodoResponses :
        all_assignments' = MergeTodo(all_assignments, items, courses)
    /\ calls' = Append(calls, Request("todo"))
    /\ pc' = "calendar"
    /\ UNCHANGED <<now, file, mode, state, courses, ci, announcements_by_course,
                   failed_courses, buckets, emails, saves, resp, replaced>>
    /\ UNCHANGED <<pvars, mornings>>

\* the to-do failure handled as the failure of the courses request is
FetchTodoFail_AbortsRun ==
    /\ pc = "todo"
    /\ calls' = Append(calls, Request("todo"))
    /\ emails' = Append(emails, Email("Canvas Alerts Error", build_error_html))
    /\ pc' = "returned"
    /\ UNCHANGED <<now, file, mode, state, courses, ci, all_assignments,
                   announcements_by_course, failed_courses, buckets, saves,
                   resp, replaced>>
    /\ UNCHANGED <<pvars, mornings>>

FetchTodoFail ==
    /\ pc = "todo"
    /\ calls' = Append(calls, Request("todo"))
    /\ pc' = "calendar"
    /\ UNCHANGED <<now, file, mode, state, courses, ci, all_assignments,
                   announcements_by_course, failed_courses, buckets, emails, saves,
                   resp, replaced>>
    /\ UNCHANGED <<pvars, mornings>>

FetchCalendarOk ==
    /\ pc = "calendar"
    /\ \E events \in CalendarResponses :
        all_assignments' = MergeCalendar(all_assignments, events, courses)
    /\ calls' = Append(calls, Request("calendar"))
    /\ pc' = "digest"
    /\ UNCHANGED <<now, file, mode, state, courses, ci, announcements_by_course,
                   failed_courses, buckets, emails, saves, resp, replaced>>
    /\ UNCHANGED <<pvars, mornings>>

FetchCalendarFail ==
    /\ pc = "calendar"
    /\ calls' = Append(calls, Request("calendar"))
    /\ pc' = "digest"
    /\ UNCHANGED <<now, file, mode, state, courses, ci, all_assignments,
                   announcements_by_course, failed_courses, buckets, emails, saves,
                   resp, replaced>>
    /\ UNCHANGED <<pvars, mornings>>

\* mode == "morning": categorize, build, send, then update the state;
\* send_email() raising ends main() before the update
MorningDigest ==
    /\ pc = "digest" /\ mode = "morning"
    /\ buckets' = categorize(all_assignments, state, now)
    /\ emails' = Append(emails,
            Email("Canvas Daily Digest",
                  build_morning_html(categorize(all_assignments, state, now),
                                     announcements_by_course, failed_courses,
                                     Len(courses), Len(all_assignments))))
    /\ \E delivered \in BOOLEAN :
        IF delivered
        THEN /\ state' = morning_update(state, all_assignments, now)
             /\ pc' = "save"
        ELSE /\ state' = state
             /\ pc' = "raised"
    /\ UNCHANGED <<now, file, mode, courses, ci, all_assignments,
                   announcements_by_course, failed_courses, saves, calls, resp, replaced>>
    /\ UNCHANGED <<pvars, mornings>>

\* mode == "evening": filter, build, send unless None, then record the run
EveningReminder ==
    /\ pc = "digest" /\ mode = "evening"
    /\ LET html == build_evening_html(tomorrow_unsubmitted(all_assignments, now))
       IN  IF html = None
           THEN /\ emails' = emails
                /\ state' = evening_update(state, now)
                /\ pc' = "save"
           ELSE /\ emails' = Append(emails, Email("Canvas Evening Alert", html[1]))
                /\ \E delivered \in BOOLEAN :
                    IF delivered
                    THEN /\ state' = evening_update(state, now)
                         /\ pc' = "save"
                    ELSE /\ state' = state
                         /\ pc' = "raised"
    /\ UNCHANGED <<now, file, mode, courses, ci, all_assignments,
                   announcements_by_course, failed_courses, buckets, saves, calls,
                   resp, replaced>>
    /\ UNCHANGED <<pvars, mornings>>

SaveState ==
    /\ pc = "save"
    /\ file' = save_state(state)
    /\ saves' = saves + 1
    /\ pc' = "returned"
    /\ UNCHANGED <<now, mode, state, courses, ci, all_assignments,
                   announcements_by_course, failed_courses, buckets, emails, calls,
                   resp, replaced>>
    /\ UNCHANGED <<pvars, mornings>>

Next ==
    \/ StartRun
    \/ OutsideWindows
    \/ FetchCoursesOk
    \/ FetchCoursesFail
    \/ FetchAssignmentsOk
    \/ FetchAssignmentsFail
    \/ FetchPeerReviews
    \/ FetchAnnouncementsOk
    \/ FetchAnnouncementsFail
    \/ FetchTodoOk
    \/ FetchTodoFail
    \/ FetchCalendarOk
    \/ FetchCalendarFail
    \/ MorningDigest
    \/ EveningReminder
    \/ SaveState

Spec == Init /\ [][Next]_vars

\* ------------------------------------------- categorize() on drawn arguments

MaxDue == 25

CatNows == {6, 8}

CatTimestamps == {None} \cup {isoformat(t) : t \in 0..MaxDue}

WorkflowStates == {"unsubmitted", "submitted", "graded"}

\* a record with the optional keys that are present
Record(id, due_at, lock_at, workflow_state) ==
    [k \in {"id", "_course_name"}
            \cup (IF due_at # None THEN {"due_at"} ELSE {})
            \cup (IF lock_at # None THEN {"lock_at"} ELSE {})
            \cup (IF workflow_state # "" THEN {"submission"} ELSE {}) |->
        CASE k = "id" -> id
          [] k = "_course_name" -> "CS101"
          [] k = "due_at" -> due_at
          [] k = "lock_at" -> lock_at
          [] k = "submission" -> [workflow_state |-> workflow_state]]

CatRecords ==
    {Record(1, due, lock, ws) :
        due \in CatTimestamps, lock \in {None, isoformat(6)},
        ws \in WorkflowStates \cup {""}}

CatCompanions ==
    {Record(2, due, None, ws) :
        due \in {None, isoformat(7), isoformat(13)}, ws \in {"", "graded"}}

\* the values of a dict whose keys are the ids
CatInputs ==
    {<<>>} \cup {<<a>> : a \in CatRecords \cup CatCompanions}
           \cup {<<a, b>> : a \in CatRecords, b \in CatCompanions}
           \cup {<<b, a>> : a \in CatRecords, b \in CatCompanions}

SeenStub == [name |-> "Essay", course |-> "CS101", due_at |-> None, first_seen |-> isoformat(1)]

\* a state file an earlier run can have left
CatStates ==
    {[last_morning_run |-> last, last_evening_run |-> None,
      seen_assignments |-> [k \in keys |-> SeenStub]] :
        last \in {None, isoformat(2), isoformat(5)}, keys \in SUBSET {str(id) : id \in Ids}}

CatInit ==
    /\ now \in CatNows
    /\ state \in CatStates
    /\ all_assignments \in CatInputs
    /\ pc = "categorize"
    /\ mode = "morning"
    /\ file = None
    /\ courses = <<>>
    /\ ci = 0
    /\ announcements_by_course = <<>>
    /\ failed_courses = <<>>
    /\ buckets = EmptyBuckets
    /\ emails = <<>>
    /\ saves = 0
    /\ calls = <<>>
    /\ resp = <<>>
    /\ replaced = {}
    /\ chain = <<>>
    /\ url = None
    /\ params = <<>>
    /\ attempt = 0
    /\ results = <<>>
    /\ returned = None
    /\ mornings = <<>>

CatApply ==
    /\ pc = "categorize"
    /\ buckets' = categorize(all_assignments, state, now)
    /\ pc' = "categorized"
    /\ UNCHANGED <<now, file, mode, state, courses, ci, all_assignments,
                   announcements_by_course, failed_courses, emails, saves, calls,
                   resp, replaced>>
    /\ UNCHANGED <<pvars, mornings>>

CatNext == CatApply

SpecCategorize == CatInit /\ [][CatNext]_vars

\* ------------------------------------------------- fetch_paginated(), one call

MaxPages == 3

\* resp.json() of one page
PageBodies == {<<>>, <<1>>, <<2, 1>>}

\* the pages behind one URL: page i links to page i + 1, the last to none
Chains == UNION {[1..n -> PageBodies] : n \in 1..MaxPages}

CallerParams == {None, [bucket |-> "upcoming"]}

LinkPart(rel, page) == [rel |-> rel, url |-> page]

\* resp.headers.get("Link", ""), split at the commas; a lone page has no header
LinkHeader(n, i) ==
    IF n = 1 THEN <<>>
    ELSE <<LinkPart("current", i)>>
            \o (IF i < n THEN <<LinkPart("next", i + 1)>> ELSE <<>>)
            \o (IF i > 1 THEN <<LinkPart("prev", i - 1)>> ELSE <<>>)
            \o <<LinkPart("first", 1), LinkPart("last", n)>>

\* url after the loop over the parts of the header
next_link(link) ==
    LET nexts == SelectSeq(link, LAMBDA part : part.rel = "next")
    IN  IF nexts = <<>> THEN None ELSE Some(nexts[Len(nexts)].url)

\* results keeps only the page read last
extend_Overwrites(rs, page) == page

\* results.extend(resp.json())
extend(rs, page) == rs \o page

PageRequest(page, query, ok) == [url |-> page, params |-> query, ok |-> ok]

\* the call: results = [], params = params or {}, the while test on url
PagInit ==
    /\ chain \in Chains
    /\ params \in {IF p = None THEN <<>> ELSE p : p \in CallerParams}
    /\ url = Some(1)
    /\ attempt = 0
    /\ results = <<>>
    /\ returned = None
    /\ calls = <<>>
    /\ pc = "get"
    /\ now = Day
    /\ file = None
    /\ mode = "exit"
    /\ state = DefaultState
    /\ courses = <<>>
    /\ ci = 0
    /\ all_assignments = <<>>
    /\ announcements_by_course = <<>>
    /\ failed_courses = <<>>
    /\ buckets = EmptyBuckets
    /\ emails = <<>>
    /\ saves = 0
    /\ resp = <<>>
    /\ replaced = {}
    /\ mornings = <<>>

PagFrame ==
    UNCHANGED <<now, file, mode, state, courses, ci, all_assignments,
                announcements_by_course, failed_courses, buckets, emails, saves,
                resp, replaced, chain, mornings>>

\* the request succeeds: break, extend, read the Link header, test the while
PagGetOk ==
    /\ pc = "get"
    /\ LET nxt == next_link(LinkHeader(Len(chain), url[1]))
       IN  /\ calls' = Append(calls, PageRequest(url[1], params, TRUE))
           /\ results' = extend(results, chain[url[1]])
           /\ url' = nxt
           /\ params' = <<>>
           /\ attempt' = 0
           /\ returned' = IF nxt = None THEN Some(extend(results, chain[url[1]])) ELSE None
           /\ pc' = IF nxt = None THEN "returned" ELSE "get"
    /\ PagFrame

\* requests.RequestException with attempt == 0: time.sleep(2), next attempt
PagRetry ==
    /\ pc = "get" /\ attempt = 0
    /\ calls' = Append(calls, PageRequest(url[1], params, FALSE))
    /\ attempt' = 1
    /\ UNCHANGED <<pc, url, params, results, returned>>
    /\ PagFrame

\* the second failure hands back what the earlier pages gave
PagRaise_ReturnsPartial ==
    /\ pc = "get" /\ attempt = 1
    /\ calls' = Append(calls, PageRequest(url[1], params, FALSE))
    /\ returned' = Some(results)
    /\ pc' = "returned"
    /\ UNCHANGED <<url, params, attempt, results>>
    /\ PagFrame

\* requests.RequestException with attempt == 1: raise
PagRaise ==
    /\ pc = "get" /\ attempt = 1
    /\ calls' = Append(calls, PageRequest(url[1], params, FALSE))
    /\ pc' = "raised"
    /\ UNCHANGED <<url, params, attempt, results, returned>>
    /\ PagFrame

PagNext ==
    \/ PagGetOk
    \/ PagRetry
    \/ PagRaise

\* every step of the function is taken: the request has a timeout, the sleep ends
SpecPaginate == PagInit /\ [][PagNext]_vars /\ WF_vars(PagNext)

\* ------------------------------------------- main(), one step for a whole run

\* the course loop over listings that all return: ups[i] is the "upcoming"
\* listing of course i, the "past" listing is empty
RECURSIVE MergeCourses(_, _, _, _)
MergeCourses(d, cs, ups, i) ==
    IF i > Len(cs) THEN d
    ELSE MergeCourses(MergeListing(MergeListing(d, ups[i], course_name(cs[i])),
                                   <<>>, course_name(cs[i])),
                      cs, ups, i + 1)

\* all_assignments at line 524: the course loop, the to-do items, the events
MergeAll(cs, ups, items, events) ==
    MergeCalendar(MergeTodo(MergeCourses(<<>>, cs, ups, 1), items, cs), events, cs)

\* the <<id, deadline>> of the unsubmitted assignments that have a deadline
Unsubmitted(assignments) ==
    {<<assignments[i].id, effective_deadline(assignments[i])[1]>> :
        i \in {j \in 1..Len(assignments) :
                    /\ effective_deadline(assignments[j]) # None
                    /\ ~is_submitted(assignments[j])}}

MorningRecord(t, st, assignments, b) ==
    [now |-> t, loaded |-> st.last_morning_run,
     unsubmitted |-> Unsubmitted(assignments), missed |-> Unsubmitted(b["missed"])]

RunFrame ==
    /\ ci' = Len(courses') + 1
    /\ announcements_by_course' = <<>>
    /\ failed_courses' = <<>>
    /\ resp' = <<>>
    /\ replaced' = {}
    /\ UNCHANGED pvars

\* main() whose courses request raises
RunFatal ==
    /\ pc \in Terminal
    /\ \E t \in (now + 1)..MaxTime, DIGEST_MODE \in DigestModes :
        /\ determine_mode(DIGEST_MODE, t) # "exit"
        /\ now' = t
        /\ mode' = determine_mode(DIGEST_MODE, t)
    /\ state' = load_state(file)
    /\ calls' = <<CoursesRequest(FALSE)>>
    /\ emails' = <<Email("Canvas Alerts Error", build_error_html)>>
    /\ \E delivered \in BOOLEAN : pc' = IF delivered THEN "returned" ELSE "raised"
    /\ courses' = <<>>
    /\ all_assignments' = <<>>
    /\ buckets' = EmptyBuckets
    /\ saves' = 0
    /\ RunFrame
    /\ UNCHANGED <<file, mornings>>

\* main() in morning mode, from load_state() to save_state()
RunMorning ==
    /\ pc \in Terminal
    /\ \E t \in (now + 1)..MaxTime, DIGEST_MODE \in DigestModes :
        /\ determine_mode(DIGEST_MODE, t) = "morning"
        /\ now' = t
    /\ mode' = "morning"
    /\ \E response \in CourseResponses : courses' = fetch_active_courses(response, now')
    /\ \E ups \in [1..Len(courses') -> Listings], items \in TodoResponses :
        all_assignments' = MergeAll(courses', ups, items, <<>>)
    /\ buckets' = categorize(all_assignments', load_state(file), now')
    /\ emails' = <<Email("Canvas Daily Digest",
                         build_morning_html(buckets', <<>>, <<>>,
                                            Len(courses'), Len(all_assignments')))>>
    /\ \E delivered \in BOOLEAN :
        IF delivered
        THEN /\ state' = morning_update(load_state(file), all_assignments', now')
             /\ file' = save_state(state')
             /\ saves' = 1
             /\ pc' = "returned"
             /\ mornings' = Append(mornings,
                    MorningRecord(now', load_state(file), all_assignments', buckets'))
        ELSE /\ state' = load_state(file)
             /\ file' = file
             /\ saves' = 0
             /\ pc' = "raised"
             /\ mornings' = mornings
    /\ calls' = <<CoursesRequest(TRUE)>>
    /\ RunFrame

\* main() in evening mode, from load_state() to save_state()
RunEvening ==
    /\ pc \in Terminal
    /\ \E t \in (now + 1)..MaxTime, DIGEST_MODE \in DigestModes :
        /\ determine_mode(DIGEST_MODE, t) = "evening"
        /\ now' = t
    /\ mode' = "evening"
    /\ \E response \in CourseResponses : courses' = fetch_active_courses(response, now')
    /\ \E ups \in [1..Len(courses') -> Listings], items \in TodoResponses :
        all_assignments' = MergeAll(courses', ups, items, <<>>)
    /\ LET html == build_evening_html(tomorrow_unsubmitted(all_assignments', now'))
       IN  /\ emails' = IF html = None THEN <<>>
                        ELSE <<Email("Canvas Evening Alert", html[1])>>
           /\ \E delivered \in {TRUE} \cup {html = None} :
                IF delivered
                THEN /\ state' = evening_update(load_state(file), now')
                     /\ file' = save_state(state')
                     /\ saves' = 1
                     /\ pc' = "returned"
                ELSE /\ state' = load_state(file)
                     /\ file' = file
                     /\ saves' = 0
                     /\ pc' = "raised"
    /\ buckets' = EmptyBuckets
    /\ calls' = <<CoursesRequest(TRUE)>>
    /\ RunFrame
    /\ UNCHANGED mornings

RunsNext ==
    \/ RunFatal
    \/ RunMorning
    \/ RunEvening

SpecRuns == Init /\ [][RunsNext]_vars

\* ------------------------------------------------------------------ claims

InBucket(a, key) == \E i \in 1..Len(buckets[key]) : buckets[key][i] = a

Merged == {all_assignments[i] : i \in 1..Len(all_assignments)}

\* the persisted last_morning_run as a slot, or one day before now
LastMorningRunOrYesterday ==
    IF state.last_morning_run = None THEN now - Day ELSE state.last_morning_run[2]

NotSubmittedDueSinceLastRun(a) ==
    /\ ~is_submitted(a)
    /\ effective_deadline(a) # None
    /\ LastMorningRunOrYesterday < effective_deadline(a)[1]
    /\ effective_deadline(a)[1] <= now

\* C1: after categorize, every assignment that is not submitted and whose
\* effective deadline lies in (last_run, now] is in "missed" and in none of
\* the other five buckets.
C1_MissedAndNowhereElse ==
    pc = "categorized" =>
        \A a \in Merged :
            NotSubmittedDueSinceLastRun(a) =>
                /\ InBucket(a, "missed")
                /\ \A key \in BucketNames \ {"missed"} : ~InBucket(a, key)

\* C1 witness: a missed assignment due exactly now, beside a recorded last run
C1_Witness ==
    /\ pc = "categorized"
    /\ state.last_morning_run # None
    /\ \E a \in Merged :
        /\ NotSubmittedDueSinceLastRun(a)
        /\ effective_deadline(a)[1] = now
        /\ InBucket(a, "missed")

HasNoDeadline(a) == "due_at" \notin DOMAIN a /\ "lock_at" \notin DOMAIN a

\* C10: after categorize, an assignment with neither a due nor a lock
\* timestamp is in none of the six buckets, submitted or not, seen or not.
C10_NoDeadlineNoBucket ==
    pc = "categorized" =>
        \A a \in Merged :
            HasNoDeadline(a) => \A key \in BucketNames : ~InBucket(a, key)

\* C10 witness: an unsubmitted, never seen assignment without a deadline is
\* left out while the other assignment of the call is placed
C10_Witness ==
    /\ pc = "categorized"
    /\ \E a \in Merged :
        /\ HasNoDeadline(a)
        /\ ~is_submitted(a)
        /\ str(a.id) \notin DOMAIN state.seen_assignments
        /\ \A key \in BucketNames : ~InBucket(a, key)
    /\ \E b \in Merged, key \in BucketNames : InBucket(b, key)

\* the run's request for the active courses raised / returned
Fatal == calls # <<>> /\ ~calls[1].ok

NonFatal == calls # <<>> /\ calls[1].ok

\* main() has returned or has been left by an exception
Ended == pc \in {"returned", "raised"}

ErrorEmail == Email("Canvas Alerts Error", build_error_html)

\* C2: when the courses request fails the run ends there: the error mail is
\* the only mail, the courses request is the only request, nothing is merged
\* or classified, and state.json still holds what the run loaded.
C2_FatalRunAborts ==
    Fatal =>
        /\ Ended
        /\ emails = <<ErrorEmail>>
        /\ calls = <<CoursesRequest(FALSE)>>
        /\ all_assignments = <<>>
        /\ announcements_by_course = <<>>
        /\ buckets = EmptyBuckets
        /\ saves = 0
        /\ load_state(file) = state

\* C2 witness: a fatal run that follows a morning run which saved its state
C2_Witness ==
    /\ Fatal
    /\ pc = "returned"
    /\ file # None
    /\ file[1].last_morning_run # None
    /\ DOMAIN file[1].seen_assignments # {}

\* C3: every run whose courses request succeeded ends with state.json
\* written exactly once, holding the state of the run.
C3_NonFatalRunSavesOnce ==
    (NonFatal /\ Ended) => (saves = 1 /\ file = save_state(state))

PersistedSeen(f) == DOMAIN load_state(f).seen_assignments

NewIds == {str(buckets["new"][i].id) : i \in 1..Len(buckets["new"])}

\* C4: the keys of the persisted seen mapping are never removed, and the
\* "new" bucket a morning run computes holds no identifier that is a key of
\* the persisted seen mapping.
C4_SeenNeverNewAgain ==
    [][ /\ PersistedSeen(file) \subseteq PersistedSeen(file')
        /\ (buckets' # buckets => NewIds' \cap PersistedSeen(file) = {}) ]_vars

\* C4 witness: a morning run classified a seen identifier whose record now
\* has another deadline and another course than the snapshot, and whose
\* deadline is in the future
C4_Witness ==
    /\ mode = "morning" /\ pc = "save"
    /\ \E a \in Merged :
        LET k == str(a.id) IN
        /\ k \in PersistedSeen(file)
        /\ effective_deadline(a) # None
        /\ effective_deadline(a)[1] > now
        /\ file[1].seen_assignments[k].due_at # isoformat(effective_deadline(a)[1])
        /\ file[1].seen_assignments[k].course # a._course_name
        /\ InBucket(a, "tomorrow")
        /\ ~InBucket(a, "new")

CourseAsked(c) == \E i \in 1..Len(calls) : "course" \in DOMAIN calls[i] /\ calls[i].course = c.id

\* C5: nothing of a course in failed_courses is in the merged collection or
\* among the announcements, and once the loop is over every course has been
\* asked for its data.
C5_FailedCourseExcluded ==
    /\ \A i \in 1..Len(failed_courses) :
        /\ \A a \in Merged : a._course_name # failed_courses[i]
        /\ failed_courses[i] \notin DOMAIN announcements_by_course
    /\ (NonFatal /\ pc \in {"todo", "calendar", "digest", "save", "returned", "raised"}) =>
            \A j \in 1..Len(courses) : CourseAsked(courses[j])

UniqueIds(d) == \A i, j \in 1..Len(d) : i # j => d[i].id # d[j].id

\* a record without the reviews the peer-review loop attaches
Core(a) == [k \in DOMAIN a \ {"_peer_reviews"} |-> a[k]]

KeptAsBefore ==
    \A id \in DictKeys(all_assignments) \cap DictKeys(all_assignments') :
        Core(DictGet(all_assignments', id)) = Core(DictGet(all_assignments, id))

\* C6 as claimed: one record per identifier, and a record already present is
\* never replaced by a later source.
C6_FirstSourceWins == [][UniqueIds(all_assignments') /\ KeptAsBefore]_vars

\* the record the listing just fetched holds last for each of its identifiers
ListingStored ==
    \A i \in 1..Len(resp') :
        (\A j \in (i + 1)..Len(resp') : resp'[j].id # resp'[i].id) =>
            DictGet(all_assignments', resp'[i].id)
                = SetField(resp'[i], "_course_name", course_name(CurCourse))

\* C6 as amended: one record per identifier; the to-do, calendar and
\* peer-review steps never replace a record already present; every record
\* of a course listing is stored under its identifier, present or not, so
\* among course listings the last one to return an identifier wins.
C6_ListingsReplaceOthersKeep ==
    [][ /\ UniqueIds(all_assignments')
        /\ (pc \in {"peer_reviews", "todo", "calendar"} =>
                KeptAsBefore /\ DictKeys(all_assignments) \subseteq DictKeys(all_assignments'))
        /\ (pc \in {"upcoming", "past"} =>
                ListingStored /\ DictKeys(all_assignments) \subseteq DictKeys(all_assignments')) ]_vars

\* C6 witness: the listing of the second course replaced a record that an
\* earlier source had stored, and the later record is the one kept
C6_Witness ==
    /\ pc = "peer_reviews" /\ ci = 2
    /\ resp # <<>>
    /\ resp[1].id \in replaced
    /\ DictGet(all_assignments, resp[1].id)
            = SetField(resp[1], "_course_name", course_name(CurCourse))

DueTomorrowUnsubmitted ==
    {a \in Merged :
        /\ ~is_submitted(a)
        /\ effective_deadline(a) # None
        /\ today_start_of(now) + Day <= effective_deadline(a)[1]
        /\ effective_deadline(a)[1] < today_start_of(now) + 2 * Day}

\* C7: an evening run that ends has sent a mail exactly when an unsubmitted
\* assignment is due tomorrow, has sent no error mail, and has set
\* last_evening_run to now.
C7_EveningSendsIffDueTomorrow ==
    (NonFatal /\ mode = "evening" /\ Ended) =>
        /\ (emails # <<>>) <=> (DueTomorrowUnsubmitted # {})
        /\ \A i \in 1..Len(emails) : emails[i] # ErrorEmail
        /\ state.last_evening_run = isoformat(now)

MorningDecided == NonFatal /\ mode = "morning" /\ pc \in {"save", "returned", "raised"}

NonEmptyBuckets == {key \in BucketNames : buckets[key] # <<>>}

\* C8: a non-fatal morning run calls send_email exactly once; the body is
\* the all-clear exactly when the six buckets, the announcements and
\* failed_courses are all empty, and otherwise it carries the warning for
\* failed_courses, a section for each non-empty bucket and no other, and
\* the announcements.
C8_MorningSendsOneDigest ==
    /\ (NonFatal /\ mode = "morning" /\ ~MorningDecided) => emails = <<>>
    /\ MorningDecided =>
        /\ Len(emails) = 1
        /\ emails[1].subject = "Canvas Daily Digest"
        /\ LET html == emails[1].html IN
            /\ html.all_clear <=>
                    /\ NonEmptyBuckets = {}
                    /\ DOMAIN announcements_by_course = {}
                    /\ Len(failed_courses) = 0
            /\ ~html.all_clear =>
                    /\ html.warning = failed_courses
                    /\ {html.sections[i][1] : i \in 1..Len(html.sections)} = NonEmptyBuckets
                    /\ \A i \in 1..Len(html.sections) :
                            html.sections[i][2] = Ids_of(buckets[html.sections[i][1]])
                    /\ html.announcements = DOMAIN announcements_by_course

\* C8 witness: nothing to report but a failed course, so the full digest
\* with the warning is sent instead of the all-clear
C8_Witness ==
    /\ MorningDecided
    /\ NonEmptyBuckets = {}
    /\ DOMAIN announcements_by_course = {}
    /\ failed_courses # <<>>
    /\ ~emails[1].html.all_clear
    /\ emails[1].html.warning = failed_courses

MergedIds == {str(a.id) : a \in Merged}

\* C9: when a morning run reaches save_state, last_morning_run is now, the
\* keys of seen_assignments are the persisted keys united with the
\* identifiers of every merged assignment, every persisted entry is kept,
\* and every added entry holds the assignment's name, course and effective
\* deadline with first_seen = now; the completed run has written that state.
C9_MorningRecordsRunAndSeen ==
    /\ (mode = "morning" /\ pc = "save") =>
        LET old == load_state(file).seen_assignments
            seen == state.seen_assignments
        IN  /\ state.last_morning_run = isoformat(now)
            /\ DOMAIN seen = DOMAIN old \cup MergedIds
            /\ \A k \in DOMAIN old : seen[k] = old[k]
            /\ \A a \in Merged :
                str(a.id) \notin DOMAIN old =>
                    /\ seen[str(a.id)].name = (IF "name" \in DOMAIN a THEN a.name ELSE "")
                    /\ seen[str(a.id)].course = a._course_name
                    /\ seen[str(a.id)].due_at =
                            (IF HasNoDeadline(a) THEN None
                             ELSE isoformat(effective_deadline(a)[1]))
                    /\ seen[str(a.id)].first_seen = isoformat(now)
    /\ (mode = "morning" /\ pc = "returned" /\ NonFatal) =>
        /\ file = save_state(state)
        /\ file[1].last_morning_run = isoformat(now)
        /\ MergedIds \subseteq DOMAIN file[1].seen_assignments

\* C9 witness: a completed morning run added an assignment without a
\* deadline and one that is in no bucket to a seen mapping that already
\* held an entry of an earlier run
C9_Witness ==
    /\ mode = "morning" /\ pc = "returned" /\ NonFatal
    /\ \E a, b \in Merged :
        /\ HasNoDeadline(a)
        /\ file[1].seen_assignments[str(a.id)].first_seen = isoformat(now)
        /\ file[1].seen_assignments[str(a.id)].due_at = None
        /\ ~HasNoDeadline(b)
        /\ \A key \in BucketNames : ~InBucket(b, key)
        /\ file[1].seen_assignments[str(b.id)].first_seen # isoformat(now)

SubmittedPastDue(a) ==
    /\ is_submitted(a)
    /\ effective_deadline(a) # None
    /\ effective_deadline(a)[1] <= now

\* C11: after categorize, every assignment whose submission is "submitted" or
\* "graded" and whose effective deadline is <= now is in none of the six
\* buckets, "missed" and "new" included.
C11_SubmittedPastDueNoBucket ==
    pc = "categorized" =>
        \A a \in Merged :
            SubmittedPastDue(a) => \A key \in BucketNames : ~InBucket(a, key)

\* C11 witness: a submitted, never seen assignment due earlier today and
\* after the last run is left out while the other assignment is placed
C11_Witness ==
    /\ pc = "categorized"
    /\ \E a \in Merged :
        /\ SubmittedPastDue(a)
        /\ LastMorningRunOrYesterday < effective_deadline(a)[1]
        /\ today_start_of(now) <= effective_deadline(a)[1]
        /\ str(a.id) \notin DOMAIN state.seen_assignments
        /\ \A key \in BucketNames : ~InBucket(a, key)
    /\ \E b \in Merged, key \in BucketNames : InBucket(b, key)

PersistedSnapshot(f, k) == load_state(f).seen_assignments[k]

\* C12: no step of any run, morning, evening or fatal, removes a key of the
\* persisted seen_assignments mapping or changes the snapshot (name, course,
\* due timestamp, first_seen) stored under a key that is already present.
C12_SeenAppendOnly ==
    [][ \A k \in PersistedSeen(file) :
            /\ k \in PersistedSeen(file')
            /\ PersistedSnapshot(file', k) = PersistedSnapshot(file, k) ]_vars

\* C12 witness: a later morning run has saved its state; it met an identifier
\* recorded by an earlier run whose record now has another name and another
\* deadline, kept the old snapshot, and added a new identifier beside it
C12_Witness ==
    /\ mode = "morning" /\ pc = "returned" /\ NonFatal
    /\ file = save_state(state)
    /\ \E a, b \in Merged :
        /\ str(a.id) \in PersistedSeen(file)
        /\ PersistedSnapshot(file, str(a.id)).first_seen # isoformat(now)
        /\ "name" \in DOMAIN a
        /\ PersistedSnapshot(file, str(a.id)).name # a.name
        /\ PersistedSnapshot(file, str(a.id)).due_at # isoformat(effective_deadline(a)[1])
        /\ PersistedSnapshot(file, str(b.id)).first_seen = isoformat(now)

\* the positions in the request log of the requests for one page
RequestsOf(page) == {k \in 1..Len(calls) : calls[k].url = page}

FirstAttempt(k) == k = 1 \/ calls[k - 1].url # calls[k].url \/ calls[k - 1].ok

\* C13: in fetch_paginated a page is requested at most twice; a failed first
\* attempt is followed by a request for the same page and by nothing else; a
\* successful attempt is followed by the request for the next page, or by
\* the return; a failed second attempt is the last request of the call,
\* which raises and returns nothing.
C13_AtMostTwoAttempts ==
    /\ \A page \in 1..Len(chain) : Cardinality(RequestsOf(page)) <= 2
    /\ \A k \in 1..Len(calls) :
        /\ (~calls[k].ok /\ FirstAttempt(k)) =>
                IF k < Len(calls) THEN calls[k + 1].url = calls[k].url
                ELSE pc = "get" /\ attempt = 1 /\ url = Some(calls[k].url)
        /\ calls[k].ok =>
                IF k < Len(calls) THEN calls[k + 1].url = calls[k].url + 1
                ELSE IF calls[k].url < Len(chain)
                     THEN pc = "get" /\ attempt = 0 /\ url = Some(calls[k].url + 1)
                     ELSE pc = "returned"
        /\ (~calls[k].ok /\ ~FirstAttempt(k)) =>
                k = Len(calls) /\ pc = "raised" /\ returned = None
    /\ pc = "raised" => returned = None

\* C13 witness: the first page needed its retry, a later page failed twice,
\* and the records already collected were not returned
C13_Witness ==
    /\ pc = "raised"
    /\ Len(calls) >= 4
    /\ ~calls[1].ok /\ calls[2].ok
    /\ results # <<>>
    /\ returned = None

RECURSIVE Concat(_)
Concat(pages) ==
    IF pages = <<>> THEN <<>>
    ELSE Concat(SubSeq(pages, 1, Len(pages) - 1)) \o pages[Len(pages)]

Succeeded == SelectSeq(calls, LAMBDA c : c.ok)

FailedTwice ==
    /\ Len(calls) >= 2
    /\ ~calls[Len(calls)].ok /\ ~calls[Len(calls) - 1].ok
    /\ calls[Len(calls)].url = calls[Len(calls) - 1].url

C19_Returned ==
    /\ (pc = "returned") <=>
            (calls # <<>> /\ calls[Len(calls)].ok /\ calls[Len(calls)].url = Len(chain))
    /\ pc = "returned" =>
            /\ returned = Some(Concat(chain))
            /\ [k \in 1..Len(Succeeded) |-> Succeeded[k].url] = [k \in 1..Len(chain) |-> k]
    /\ \A k \in 1..Len(calls) :
            IF calls[k].url = 1 THEN calls[k].params = calls[1].params
            ELSE calls[k].params = <<>>
    /\ pc = "raised" => FailedTwice

\* C19: a fetch_paginated call over a finite chain of pages ends; unless a
\* page failed twice it returns, exactly when the page without a next link
\* has been read, the records of every page of the chain in page order, each
\* page read once; only the requests for the first page carry the caller's
\* query parameters.
C19_ReturnsWholeChain == []C19_Returned /\ <>(pc \in {"returned", "raised"})

\* C19 witness: three pages, the middle one empty, a retry on the way, and
\* query parameters given by the caller
C19_Witness ==
    /\ pc = "returned"
    /\ Len(chain) = 3
    /\ chain[2] = <<>> /\ chain[1] # <<>> /\ chain[3] # <<>>
    /\ Len(calls) > Len(chain)
    /\ calls[1].params # <<>>
    /\ returned = Some(Concat(chain))

\* the last run state.json records for the active mode, or one day before now
PersistedCutoff ==
    LET last == IF mode = "morning" THEN load_state(file).last_morning_run
                ELSE load_state(file).last_evening_run
    IN  IF last = None THEN now - Day ELSE last[2]

\* C14: until the run writes state.json, every announcement kept for a course
\* was posted strictly after the last run state.json records for the active
\* mode, or strictly after now minus one day when it records none.
C14_AnnouncementsAfterCutoff ==
    pc # "returned" =>
        \A c \in DOMAIN announcements_by_course :
            \A i \in 1..Len(announcements_by_course[c]) :
                announcements_by_course[c][i].posted_at[2] > PersistedCutoff

\* C14 witness: an evening run keeps an announcement posted after the last
\* evening run, at the very time of the later morning run
C14_Witness ==
    /\ mode = "evening" /\ pc = "digest"
    /\ file # None
    /\ file[1].last_evening_run = isoformat(now - 2)
    /\ file[1].last_morning_run = isoformat(now - 1)
    /\ \E c \in DOMAIN announcements_by_course :
            announcements_by_course[c][1].posted_at = isoformat(now - 1)

\* a fetch_peer_reviews() call that raises counted as one that returned nothing
RaiseAsEmpty(outcome) ==
    [id \in DOMAIN outcome |-> IF outcome[id] = "raise" THEN "empty" ELSE outcome[id]]

\* C15: a step of the peer-review loop, of the to-do fetch or of the calendar
\* fetch, whatever it gets, goes on to the next step of the run and leaves
\* failed_courses, the mails, the state and the announcements as they were;
\* when the to-do or the calendar fetch raises, the merged collection is the
\* one an empty response gives; a peer-review call that raises leaves what
\* one returning nothing leaves; the peer-review loop adds and removes no
\* identifier.  The digest step reads nothing but what these steps leave, so
\* buckets and send decision are those of the empty response.
C15_SilentSourcesNeverAbort ==
    [][ /\ pc \in {"peer_reviews", "todo", "calendar"} =>
            /\ failed_courses' = failed_courses
            /\ emails' = emails
            /\ state' = state
            /\ announcements_by_course' = announcements_by_course
            /\ pc' = (CASE pc = "peer_reviews" -> "announcements"
                         [] pc = "todo" -> "calendar"
                         [] pc = "calendar" -> "digest")
        /\ pc = "peer_reviews" =>
            /\ Ids_of(all_assignments') = Ids_of(all_assignments)
            /\ KeptAsBefore
            /\ \A outcome \in [PeerReviewed(all_assignments, course_name(CurCourse))
                                    -> {"reviews", "empty", "raise"}] :
                    AttachPeerReviews(all_assignments, outcome)
                        = AttachPeerReviews(all_assignments, RaiseAsEmpty(outcome))
        /\ FetchTodoFail => all_assignments' = MergeTodo(all_assignments, <<>>, courses)
        /\ FetchCalendarFail => all_assignments' = MergeCalendar(all_assignments, <<>>, courses)
      ]_vars

\* C15 witness: a morning run whose peer-review call, to-do fetch and
\* calendar fetch gave nothing has sent the digest of the course listings
\* alone, with no failed course, and has saved its state
C15_Witness ==
    /\ mode = "morning" /\ pc = "returned" /\ NonFatal
    /\ \E i, j, k \in 1..Len(calls) :
        /\ calls[i].api = "peer_reviews"
        /\ calls[j].api = "todo"
        /\ calls[k].api = "calendar"
    /\ Len(all_assignments) = 1
    /\ "peer_reviews" \in DOMAIN all_assignments[1]
    /\ "_peer_reviews" \notin DOMAIN all_assignments[1]
    /\ failed_courses = <<>>
    /\ emails[1].subject = "Canvas Daily Digest"
    /\ NonEmptyBuckets # {}

\* 00:00 of the calendar day of now
Midnight == Day * (now \div Day)

TimeBuckets == {"today_past", "today", "tomorrow", "soon"}

\* C16: after categorize, an assignment whose effective deadline dl is after
\* now is in "today" iff dl < D + 1 day, in "tomorrow" iff
\* D + 1 day <= dl < D + 2 days, in "soon" iff D + 2 days <= dl < D + 4 days,
\* and in none of the time buckets iff dl >= D + 4 days, D being 00:00 of
\* the day of now.
C16_MidnightAlignedBuckets ==
    pc = "categorized" =>
        \A a \in Merged :
            (effective_deadline(a) # None /\ effective_deadline(a)[1] > now) =>
                LET dl == effective_deadline(a)[1] IN
                /\ InBucket(a, "today") <=> dl < Midnight + Day
                /\ InBucket(a, "tomorrow") <=> (Midnight + Day <= dl /\ dl < Midnight + 2 * Day)
                /\ InBucket(a, "soon") <=> (Midnight + 2 * Day <= dl /\ dl < Midnight + 4 * Day)
                /\ (\A key \in TimeBuckets : ~InBucket(a, key)) <=> dl >= Midnight + 4 * Day

\* C16 witness: an assignment due less than a day from now is in "tomorrow"
\* and one due less than two days from now is in "soon"
C16_Witness ==
    /\ pc = "categorized"
    /\ \E a, b \in Merged :
        /\ effective_deadline(a) # None
        /\ effective_deadline(a)[1] > now
        /\ effective_deadline(a)[1] < now + Day
        /\ InBucket(a, "tomorrow")
        /\ effective_deadline(b) # None
        /\ effective_deadline(b)[1] < now + 2 * Day
        /\ InBucket(b, "soon")

ReachesNewDetection(a) == effective_deadline(a) # None /\ effective_deadline(a)[1] > now

BucketsOf(a) == {key \in BucketNames : InBucket(a, key)}

\* the time bucket of a deadline after now, by the days counted from midnight
WindowOf(dl) ==
    IF dl < Midnight + Day THEN {"today"}
    ELSE IF dl < Midnight + 2 * Day THEN {"tomorrow"}
    ELSE IF dl < Midnight + 4 * Day THEN {"soon"}
    ELSE {}

\* C17: after categorize, an assignment with an effective deadline after now
\* is in "new" iff its identifier is not a key of the persisted seen mapping,
\* whatever its time bucket: a new item is in "new" and in the time bucket
\* of its deadline, in "new" alone when the deadline is four days or more
\* after midnight; an assignment that does not reach the detection is not
\* in "new".
C17_NewIffUnseen ==
    pc = "categorized" =>
        \A a \in Merged :
            IF ReachesNewDetection(a)
            THEN /\ InBucket(a, "new") <=> str(a.id) \notin DOMAIN state.seen_assignments
                 /\ BucketsOf(a) \ {"new"} = WindowOf(effective_deadline(a)[1])
            ELSE ~InBucket(a, "new")

\* C17 witness: two never seen assignments, one in "new" alone because it
\* is due beyond the windows, one in "new" and in its time bucket
C17_Witness ==
    /\ pc = "categorized"
    /\ state.seen_assignments = <<>>
    /\ \E a, b \in Merged :
        /\ ReachesNewDetection(a)
        /\ BucketsOf(a) = {"new"}
        /\ ReachesNewDetection(b)
        /\ "new" \in BucketsOf(b)
        /\ BucketsOf(b) \cap {"today", "tomorrow", "soon"} # {}

DueEarlierToday(a) ==
    /\ effective_deadline(a) # None
    /\ Midnight <= effective_deadline(a)[1]
    /\ effective_deadline(a)[1] < now

\* C18: after categorize, an assignment whose effective deadline lies in
\* [today 00:00, now) and that the missed rule did not catch (it is
\* submitted, or its deadline is not after last_run) is in "today_past".
C18_TodayPastReachable ==
    pc = "categorized" =>
        \A a \in Merged :
            (DueEarlierToday(a) /\ ~NotSubmittedDueSinceLastRun(a)) =>
                InBucket(a, "today_past")

\* the start of the missed window of the k-th completed morning run
Baseline(k) ==
    IF mornings[k].loaded = None THEN mornings[k].now - Day ELSE mornings[k].loaded[2]

MissedBy(x) == {k \in 1..Len(mornings) : x \in mornings[k].missed}

\* C20: over the completed morning runs of a sequence of morning, evening
\* and fatal runs, the window of each starts where the window of the one
\* before ended, whatever ran in between; and an assignment that every one
\* of them merged unsubmitted under the same identifier and deadline dl,
\* with dl after the start of the first window and not after the end of
\* the last, was placed in "missed" by exactly one of them.
C20_MissedExactlyOnce ==
    /\ \A k \in 2..Len(mornings) : Baseline(k) = mornings[k - 1].now
    /\ \A k \in 1..Len(mornings) : Baseline(k) < mornings[k].now
    /\ mornings # <<>> =>
        \A x \in mornings[1].unsubmitted :
            ( /\ \A k \in 1..Len(mornings) : x \in mornings[k].unsubmitted
              /\ Baseline(1) < x[2]
              /\ x[2] <= mornings[Len(mornings)].now )
            => Cardinality(MissedBy(x)) = 1

\* C20 witness: three runs, the evening run between the two morning runs;
\* the deadline passed before the evening run and the second morning run
\* is the one that reports the assignment missed
C20_Witness ==
    /\ Len(mornings) = 2
    /\ pc = "returned" /\ mode = "morning"
    /\ file[1].last_evening_run # None
    /\ file[1].last_evening_run[2] > mornings[1].now
    /\ \E x \in mornings[1].unsubmitted :
        /\ x \in mornings[2].unsubmitted
        /\ mornings[1].now < x[2]
        /\ x[2] <= file[1].last_evening_run[2]
        /\ MissedBy(x) = {2}

\* C21: until its digest step a run holds the state it loaded; an evening
\* run about to write state.json has set last_evening_run to now and holds
\* last_morning_run and the whole seen_assignments mapping as state.json has
\* them, so what the run merged is not recorded; a morning run about to
\* write holds last_evening_run as state.json has it; a run that returned
\* has written exactly the state it held.
C21_RunsKeepTheOtherRun ==
    /\ pc \in {"courses", "upcoming", "past", "peer_reviews", "announcements",
                "todo", "calendar", "digest", "raised"} => state = load_state(file)
    /\ (mode = "evening" /\ pc = "save") =>
        /\ state.last_evening_run = isoformat(now)
        /\ state.last_morning_run = load_state(file).last_morning_run
        /\ state.seen_assignments = load_state(file).seen_assignments
    /\ (mode = "morning" /\ pc = "save") =>
        state.last_evening_run = load_state(file).last_evening_run
    /\ (NonFatal /\ pc = "returned") => file = save_state(state)

\* C21 witness: an evening run that follows a morning run has saved its
\* state; it merged an identifier the morning run had not seen, and the
\* identifier is still not in the persisted mapping beside the older entry
C21_Witness ==
    /\ mode = "evening" /\ pc = "returned" /\ NonFatal
    /\ file[1].last_evening_run = isoformat(now)
    /\ file[1].last_morning_run # None
    /\ PersistedSeen(file) # {}
    /\ \E a \in Merged : str(a.id) \notin PersistedSeen(file)

\* how many entries of a bucket carry the identifier of an assignment
Occurrences(a, key) ==
    Cardinality({i \in 1..Len(buckets[key]) : buckets[key][i].id = a.id})

\* C22: in the output of categorize every entry of a bucket is an assignment
\* of the merged collection; each assignment is at most once in a bucket,
\* in at most one of "missed", "today_past", "today", "tomorrow", "soon",
\* and when it is in "new" its only other bucket is one of "today",
\* "tomorrow", "soon".
C22_BucketsOverlapOnlyWithNew ==
    pc = "categorized" =>
        /\ \A key \in BucketNames : \A i \in 1..Len(buckets[key]) : buckets[key][i] \in Merged
        /\ \A a \in Merged :
            /\ \A key \in BucketNames : Occurrences(a, key) <= 1
            /\ Cardinality(BucketsOf(a) \ {"new"}) <= 1
            /\ "new" \in BucketsOf(a) => BucketsOf(a) \ {"new"} \subseteq {"today", "tomorrow", "soon"}

\* C22 witness: of two assignments one is in "new" and "today", the other
\* in "missed" alone although it was never seen
C22_Witness ==
    /\ pc = "categorized"
    /\ \E a, b \in Merged :
        /\ BucketsOf(a) = {"new", "today"}
        /\ BucketsOf(b) = {"missed"}
        /\ str(b.id) \notin DOMAIN state.seen_assignments

====
